---- MODULE Spec2Model ----
\* Model of the deep-research agent of ymeskini/ai-app:
\*   * runAgentLoop (src/lib/run-agent-loop.ts) with its SystemContext
\*     (src/lib/system-context.ts) and the queryRewriter validation
\*     (src/lib/query-rewriter.ts);
\*   * the admission gates of POST /api/chat (src/app/api/chat/route.ts) over
\*     the Redis counters of src/server/redis/redis.ts and
\*     src/server/redis/global-rate-limit.ts.
EXTENDS Integers, Sequences, FiniteSets, TLC

\* ------------------------------------------------------------------ bounds
\* largest maxSteps argument explored
MaxStepsBound == 2
\* largest query list the rewriter's LLM response carries in the model
MaxPlan == 3

\* number of concurrent POST /api/chat requests of the one user
NumRequests == 2
\* last rate-limit window the clock reaches
MaxWindow == 1
\* last window the clock reaches while one request sits in retry()
MaxRetryWindow == 3

\* largest options.maxRetries of a crawl
MaxScrapeRetries == 6
\* URLs crawled side by side
NumUrls == 2
\* number of calls of the cached function
NumCalls == 3
\* longest argument list of a cached call
MaxArgs == 2
\* most organic results of one search
MaxOrganic == 3
\* chats with a stream
NumChats == 2
\* most runs started
MaxRuns == 2
\* deleteChat calls on the chat
NumDeletes == 2
\* most messages of the chat
MaxMessages == 2
\* largest maxSteps argument explored behind the guardrail
MaxGuardedSteps == 1
\* largest maxSteps argument explored with a cancellation
MaxCancelledSteps == 1
\* largest maxSteps argument explored with the annotations collected
MaxPersistedSteps == 1

\* ------------------------------------------------------- program constants
\* redis.ts: const DAILY_REQUEST_LIMIT = 5
DAILY_REQUEST_LIMIT == 5
\* route.ts globalRateLimitConfig: maxRequests: 1, maxRetries: 3
GlobalMaxRequests == 1
ConfiguredMaxRetries == 3
\* redis.test.ts: expect(key).toMatch(/^test:[a-f0-9]{12}$/)
KeyHashLength == 12
\* jina-scraper.ts: const MIN_DELAY_MS = 500, const MAX_DELAY_MS = 8000
MIN_DELAY_MS == 500
MAX_DELAY_MS == 8000
\* queryRewriterSchema: queries.min(3).max(5)
MinQueries == 3
MaxQueries == 5

\* searchSerper(...).organic mapped to results: the provider answers the query
\* with index i by two pages, and neighbouring queries share a page
Urls == <<"u0", "u1", "u2">>
Organic(i) == << [url |-> Urls[(i % Len(Urls)) + 1]], [url |-> Urls[((i + 1) % Len(Urls)) + 1]] >>

\* sizes of the query list in a rewriter response (before validation)
RawPlanSizes == (0..MaxPlan) \cup {MaxQueries + 1}

VARIABLES
    maxSteps,       \* argument of runAgentLoop
    step,           \* SystemContext.step
    searchHistory,  \* SystemContext.searchHistory
    pc,             \* where runAgentLoop is suspended
    queries,        \* queryResult.queries of the running step (its length)
    searchResults,  \* the searchPromises / searchResults array of the step
    events,         \* what was written to the client since the running step
                    \* began (after the loop: since the loop was left)
    thrown,         \* which awaited call made runAgentLoop reject
    decided,        \* nextAction.type of the last evaluator result
    answer,         \* options of the answerQuestion call, if any
    calls           \* number of calls of each collaborator so far

loopVars == <<maxSteps, step, searchHistory, pc, queries, searchResults,
              events, thrown, decided, answer, calls>>

VARIABLES
    now,            \* Math.floor(Date.now() / windowMs): the current window
    globalCount,    \* Redis counter "global:<windowStart>" of the current window
    dailyCount,     \* Redis counter "rate_limit:daily:<userId>:<today>"
    maxRetries,     \* RateLimitConfig.maxRetries
    rpc,            \* where each POST handler is suspended
    resetTime,      \* resetTime of the check whose retry() a handler runs
    retryCount,     \* retryCount of that check's closure
    writes,         \* per request: increments it made to each counter
    admitted,       \* requests of the day that passed checkRateLimit
    isAdmin,        \* isUserAdmin(userName) of the requesting user
    storeUp,        \* the Redis server answers commands
    rounds,         \* per request: re-checks made inside retry()
    failOpen        \* per request: a global check was answered by its catch

admitVars == <<now, globalCount, dailyCount, maxRetries, rpc, resetTime,
               retryCount, writes, admitted, isAdmin, storeUp, rounds, failOpen>>

VARIABLES
    cache,          \* Redis keys written by cacheWithRedis: key -> text
    cpc,            \* where each call of the cached function is suspended
    cargs,          \* ...args of each call
    cret,           \* result of fn in the call, then the value it returned
    spy,            \* per call: it invoked the wrapped function
    cfirst,         \* per call: result of the first completed call, as of its read
    clast,          \* per call: value last written under its key, as of its read
    firstDone,      \* per key: result of the first call completed since the key is live
    lastWritten     \* per key: value whose text the key holds

cacheVars == <<cache, cpc, cargs, cret, spy, cfirst, clast, firstDone, lastWritten>>

VARIABLES
    keyLeft,        \* (keyPrefix, args) of one cached call
    keyRight,       \* (keyPrefix, args) of another
    keyOut          \* the keys built for them

keyVars == <<keyLeft, keyRight, keyOut>>

VARIABLES
    scrMaxRetries,  \* options.maxRetries of the crawl
    attempts,       \* per URL: attempts of its jinaCrawlWebsite call
    apiCalls,       \* per URL: calls of callJinaReaderAPI made for it
    spc,            \* per URL: where its jinaCrawlWebsite call is suspended
    scrResult,      \* per URL: what the call returned
    delays          \* per URL: the backoff delays awaited so far, in ms

scrapeVars == <<scrMaxRetries, attempts, apiCalls, spc, scrResult, delays>>

VARIABLES
    sasPc,          \* where the searchAndScrape call is suspended
    initialResults, \* the organic results of the search
    crawl,          \* per result: what bulkCrawlWebsites reported for its URL
    combined,       \* per result: the SearchResult being built
    summarizing,    \* the results whose summarizeURL call is pending
    sasEntry        \* the SearchHistoryEntry the call returned

searchVars == <<sasPc, initialResults, crawl, combined, summarizing, sasEntry>>

VARIABLES
    streamKeys,     \* per chat: the value stored under chat_streams:<chatId>
    runs,           \* the runs started so far: their chat and whether finished
    lastGet         \* per chat: the answer of the latest GET for it

streamVars == <<streamKeys, runs, lastGet>>

VARIABLES
    chatOwner,      \* chats row of the chat: its userId, or none
    messageRows,    \* number of messages rows of the chat
    dpc,            \* per deleteChat call: where it is suspended
    dcall,          \* per call: the caller and the revision called
    dret,           \* per call: what it returned
    removed         \* per call: the rows its statements deleted

chatVars == <<chatOwner, messageRows, dpc, dcall, dret, removed>>

VARIABLES
    classification  \* what checkIsSafe answered for the message history

guardVars == <<classification>>

VARIABLES
    cancelledIn,    \* where runAgentLoop was suspended when the request was
                    \* cancelled, or "none"
    persisted       \* whether onFinish saved the chat, and on which side of
                    \* the cancellation

cancelVars == <<cancelledIn, persisted>>

VARIABLES
    annotations,    \* the in-memory list of the POST handler
    dataStream,     \* the message annotations written to the client stream
    sunk,           \* the writeMessageAnnotation calls of the loop iteration
                    \* that have returned
    wpc,            \* where the running writeMessageAnnotation call stands
    fpc,            \* where onFinish and the save behind it stand
    savedAnnotations \* annotations column of the assistant message's row

persistVars == <<annotations, dataStream, sunk, wpc, fpc, savedAnnotations>>

vars == <<loopVars, admitVars, cacheVars, keyVars, scrapeVars, searchVars, streamVars, chatVars, guardVars, cancelVars, persistVars>>

\* what the actions of one component leave alone
outsideLoop == <<admitVars, cacheVars, keyVars, scrapeVars, searchVars, streamVars, chatVars, guardVars, cancelVars, persistVars>>
outsideAdmit == <<loopVars, cacheVars, keyVars, scrapeVars, searchVars, streamVars, chatVars, guardVars, cancelVars, persistVars>>
outsideCache == <<loopVars, admitVars, keyVars, scrapeVars, searchVars, streamVars, chatVars, guardVars, cancelVars, persistVars>>
outsideKey == <<loopVars, admitVars, cacheVars, scrapeVars, searchVars, streamVars, chatVars, guardVars, cancelVars, persistVars>>
outsideScrape == <<loopVars, admitVars, cacheVars, keyVars, searchVars, streamVars, chatVars, guardVars, cancelVars, persistVars>>
outsideSearch == <<loopVars, admitVars, cacheVars, keyVars, scrapeVars, streamVars, chatVars, guardVars, cancelVars, persistVars>>
outsideStream == <<loopVars, admitVars, cacheVars, keyVars, scrapeVars, searchVars, chatVars, guardVars, cancelVars, persistVars>>
outsideChat == <<loopVars, admitVars, cacheVars, keyVars, scrapeVars, searchVars, streamVars, guardVars, cancelVars, persistVars>>
\* the guardrail runs inside runAgentLoop and shares its state
outsideGuard == <<admitVars, cacheVars, keyVars, scrapeVars, searchVars, streamVars, chatVars, cancelVars, persistVars>>
outsideCancel == <<admitVars, cacheVars, keyVars, scrapeVars, searchVars, streamVars, chatVars, guardVars, persistVars>>
outsidePersist == <<admitVars, cacheVars, keyVars, scrapeVars, searchVars, streamVars, chatVars, guardVars, cancelVars>>

\* ------------------------------------------------------------ annotations
Ev(t, i, s) == [type |-> t, idx |-> i, status |-> s]
Planning == Ev("PLANNING", -1, "")
QueriesGenerated == Ev("QUERIES_GENERATED", -1, "")
SearchUpdate(i, s) == Ev("SEARCH_UPDATE", i, s)
NewAction(t) == Ev("NEW_ACTION", -1, t)
ActionUpdate(k, s) == Ev("ACTION_UPDATE", k, s)
AnswerStream(isFinal) == Ev("ANSWER", -1, IF isFinal THEN "final" ELSE "normal")

NoAnswer == [called |-> FALSE, isFinal |-> FALSE]
NoCalls == [rewriter |-> 0, search |-> 0, evaluator |-> 0, answer |-> 0]

NoEntry == [query |-> <<-1, -1>>, results |-> <<>>]
Pending == [state |-> "pending", entry |-> NoEntry]
Rejected == [state |-> "failed", entry |-> NoEntry]
Fulfilled(e) == [state |-> "ok", entry |-> e]

Requests == 1..NumRequests
\* the request followed through retry()
TheRequest == 1

\* checkGlobalRateLimit: let retryCount = 0, in every call's own closure
FreshRetryCount == 0

\* values of RateLimitConfig.maxRetries: none, one, and the one POST configures
RetryBudgets == {0, 1, ConfiguredMaxRetries}

\* ------------------------------------------------- components left idle
\* runAgentLoop not called
IdleLoop ==
    /\ maxSteps = 0 /\ step = 0 /\ searchHistory = <<>> /\ pc = "loop"
    /\ queries = 0 /\ searchResults = <<>> /\ events = <<>> /\ thrown = "none"
    /\ decided = "none" /\ answer = NoAnswer /\ calls = NoCalls

\* no POST /api/chat request under way
IdleAdmit ==
    /\ now = 0 /\ globalCount = 0 /\ dailyCount = 0
    /\ maxRetries = ConfiguredMaxRetries /\ rpc = [r \in Requests |-> "start"]
    /\ resetTime = [r \in Requests |-> 0]
    /\ retryCount = [r \in Requests |-> FreshRetryCount]
    /\ writes = [r \in Requests |-> [global |-> 0, daily |-> 0]] /\ admitted = 0
    /\ isAdmin = FALSE /\ storeUp = TRUE /\ rounds = [r \in Requests |-> 0]
    /\ failOpen = [r \in Requests |-> FALSE]

\* no cached call under way, nothing cached
IdleCache ==
    /\ cache = <<>> /\ cpc = <<>> /\ cargs = <<>> /\ cret = <<>> /\ spy = <<>>
    /\ cfirst = <<>> /\ clast = <<>> /\ firstDone = <<>> /\ lastWritten = <<>>

\* no key being built
IdleKey ==
    /\ keyLeft = <<>> /\ keyRight = <<>> /\ keyOut = <<>>

\* no crawl under way
IdleScrape ==
    /\ scrMaxRetries = 0 /\ attempts = <<>> /\ apiCalls = <<>> /\ spc = <<>>
    /\ scrResult = <<>> /\ delays = <<>>

\* searchAndScrape not called
IdleSearch ==
    /\ sasPc = "idle" /\ initialResults = <<>> /\ crawl = <<>>
    /\ combined = <<>> /\ summarizing = {} /\ sasEntry = <<>>

\* no chat run started, no GET answered
IdleStream ==
    /\ streamKeys = <<>> /\ runs = <<>> /\ lastGet = <<>>

\* no deleteChat call, no chat
IdleChat ==
    /\ chatOwner = "" /\ messageRows = 0 /\ dpc = <<>> /\ dcall = <<>>
    /\ dret = <<>> /\ removed = <<>>

\* checkIsSafe not called
IdleGuard ==
    /\ classification = "none"

\* request not cancelled, nothing saved
IdleCancel ==
    /\ cancelledIn = "none" /\ persisted = "none"

\* nothing written, onFinish not called, no row
IdlePersist ==
    /\ annotations = <<>> /\ dataStream = <<>> /\ sunk = [iteration |-> 0, n |-> 0]
    /\ wpc = "idle" /\ fpc = "running" /\ savedAnnotations = <<"no row">>

\* ---------------------------------------------------------- SystemContext
\* while (ctx.getStep() < maxSteps)
LoopGuardInclusive(s, m) == s <= m
LoopGuard(s, m) == s < m

\* incrementStep() { this.step++ }
incrementStepNever(s) == s
incrementStep(s) == s + 1

\* reportSearch(search) { this.searchHistory.push(search) }
reportSearchUnshift(h, e) == <<e>> \o h
reportSearch(h, e) == Append(h, e)

\* searchResults.forEach((result) => { if (result) ctx.reportSearch(result) })
RECURSIVE ReportFrom(_, _, _)
ReportFrom(h, rs, i) ==
    IF i > Len(rs) THEN h
    ELSE ReportFrom(IF rs[i].state = "ok" THEN reportSearch(h, rs[i].entry) ELSE h, rs, i + 1)
RECURSIVE ReportAllUnfiltered(_, _)
ReportAllUnfiltered(h, rs) ==
    IF rs = <<>> THEN h
    ELSE ReportAllUnfiltered(reportSearch(h, rs[1].entry), Tail(rs))
ReportAll(h, rs) == ReportFrom(h, rs, 1)

\* ----------------------------------------------------------- queryRewriter
\* queries.length === 0 and queries.length < 3 || > 5 are rejected with an Error
PlanValidNoUpperBound(n) == ~(n = 0) /\ ~(n < MinQueries)
PlanValid(n) == ~(n = 0) /\ ~(n < MinQueries \/ n > MaxQueries)

\* ------------------------------------------------------------ runAgentLoop
\* QUERIES_GENERATED, then queries.map(async ...) runs every callback up to its
\* first await: one "loading" SEARCH_UPDATE per query, in index order
RECURSIVE Loading(_, _)
Loading(i, n) == IF i > n THEN <<>> ELSE <<SearchUpdate(i - 1, "loading")>> \o Loading(i + 1, n)
OnQueriesGeneratedTwice(ev, n) == ev \o <<QueriesGenerated, QueriesGenerated>> \o Loading(1, n)
OnQueriesGenerated(ev, n) == ev \o <<QueriesGenerated>> \o Loading(1, n)

\* status of the SEARCH_UPDATE written when searchAndScrape settles
TerminalStatusAlwaysCompleted(ok) == "completed"
TerminalStatus(ok) == IF ok THEN "completed" ELSE "error"

\* NEW_ACTION, then ACTION_UPDATE{completed} on nextAction.type === "continue"
OnContinueSwapped(ev, k) == ev \o <<ActionUpdate(k, "completed"), NewAction("continue")>>
OnContinue(ev, k) == ev \o <<NewAction("continue"), ActionUpdate(k, "completed")>>

\* answerQuestion(ctx, {langfuseTraceId, onFinish}): isFinal defaults to false
AnswerAtDecision == [called |-> TRUE, isFinal |-> FALSE]
\* answerQuestion(ctx, {isFinal: true, ...}) after the while loop
AnswerAtCapNotFinal == [called |-> TRUE, isFinal |-> FALSE]
AnswerAtCap == [called |-> TRUE, isFinal |-> TRUE]

\* catch (error) { write ACTION_UPDATE{error}; ...; throw error }
AfterCatchSwallowed(s) == [pc |-> "loop", step |-> incrementStep(s)]
AfterCatch(s) == [pc |-> "thrown", step |-> s]

LoopInit ==
    /\ maxSteps \in 0..MaxStepsBound
    /\ step = 0
    /\ searchHistory = <<>>
    /\ pc = "loop"
    /\ queries = 0
    /\ searchResults = <<>>
    /\ events = <<>>
    /\ thrown = "none"
    /\ decided = "none"
    /\ answer = NoAnswer
    /\ calls = NoCalls
    /\ IdleAdmit /\ IdleCache /\ IdleKey /\ IdleScrape /\ IdleSearch /\ IdleStream /\ IdleChat /\ IdleGuard /\ IdleCancel /\ IdlePersist

\* loop test true: PLANNING is written and queryRewriter is called
StartStep ==
    /\ pc = "loop"
    /\ LoopGuard(step, maxSteps)
    /\ events' = <<Planning>>
    /\ calls' = [calls EXCEPT !.rewriter = @ + 1]
    /\ queries' = 0
    /\ searchResults' = <<>>
    /\ decided' = "none"
    /\ pc' = "rewriter"
    /\ UNCHANGED <<outsideLoop, maxSteps, step, searchHistory, thrown, answer>>

\* loop test false: answerQuestion(ctx, {isFinal: true})
MaxStepsReached ==
    /\ pc = "loop"
    /\ ~LoopGuard(step, maxSteps)
    /\ answer' = AnswerAtCap
    /\ events' = <<AnswerStream(AnswerAtCap.isFinal)>>
    /\ calls' = [calls EXCEPT !.answer = @ + 1]
    /\ queries' = 0
    /\ searchResults' = <<>>
    /\ pc' = "done"
    /\ UNCHANGED <<outsideLoop, maxSteps, step, searchHistory, thrown, decided>>

\* the catch block of the step: ACTION_UPDATE{stepIndex, error}, rethrow
Catch(who) ==
    /\ events' = Append(events, ActionUpdate(step, "error"))
    /\ thrown' = who
    /\ pc' = AfterCatch(step).pc
    /\ step' = AfterCatch(step).step
    /\ UNCHANGED <<outsideLoop, maxSteps, searchHistory, queries, searchResults, decided, answer, calls>>

\* queryRewriter resolves with n queries: QUERIES_GENERATED, the fan-out starts
RewriterReturns(n) ==
    /\ pc = "rewriter"
    /\ PlanValid(n)
    /\ queries' = n
    /\ events' = OnQueriesGenerated(events, n)
    /\ searchResults' = [i \in 1..n |-> Pending]
    /\ calls' = [calls EXCEPT !.search = @ + n]
    /\ pc' = "fanout"
    /\ UNCHANGED <<outsideLoop, maxSteps, step, searchHistory, thrown, decided, answer>>

\* queryRewriter throws on a response outside 3..5 queries
RewriterRejects(n) ==
    /\ pc = "rewriter"
    /\ ~PlanValid(n)
    /\ Catch("rewriter")

\* the LLM call of queryRewriter fails
RewriterFails ==
    /\ pc = "rewriter"
    /\ Catch("rewriter")

\* searchAndScrape of query i resolves with an entry
SearchCompletes(i) ==
    /\ pc = "fanout"
    /\ i \in 1..queries
    /\ searchResults[i].state = "pending"
    /\ events' = Append(events, SearchUpdate(i - 1, TerminalStatus(TRUE)))
    /\ searchResults' = [searchResults EXCEPT ![i] =
                            Fulfilled([query |-> <<step, i - 1>>, results |-> Organic(i - 1)])]
    /\ UNCHANGED <<outsideLoop, maxSteps, step, searchHistory, pc, queries, thrown, decided, answer, calls>>

\* searchAndScrape of query i rejects: the task's catch returns null
SearchFails(i) ==
    /\ pc = "fanout"
    /\ i \in 1..queries
    /\ searchResults[i].state = "pending"
    /\ events' = Append(events, SearchUpdate(i - 1, TerminalStatus(FALSE)))
    /\ searchResults' = [searchResults EXCEPT ![i] = Rejected]
    /\ UNCHANGED <<outsideLoop, maxSteps, step, searchHistory, pc, queries, thrown, decided, answer, calls>>

\* await Promise.all(searchPromises) resumes; results are reported; getNextAction is called
AllSettled(rs) == \A i \in DOMAIN rs : rs[i].state # "pending"
FanoutJoined ==
    /\ pc = "fanout"
    /\ AllSettled(searchResults)
    /\ searchHistory' = ReportAll(searchHistory, searchResults)
    /\ calls' = [calls EXCEPT !.evaluator = @ + 1]
    /\ pc' = "evaluator"
    /\ UNCHANGED <<outsideLoop, maxSteps, step, queries, searchResults, events, thrown, decided, answer>>

\* getNextAction resolves with type "continue"
EvaluatorContinues ==
    /\ pc = "evaluator"
    /\ decided' = "continue"
    /\ events' = OnContinue(events, step)
    /\ step' = incrementStep(step)
    /\ pc' = "loop"
    /\ UNCHANGED <<outsideLoop, maxSteps, searchHistory, queries, searchResults, thrown, answer, calls>>

\* getNextAction resolves with type "answer"
EvaluatorAnswers ==
    /\ pc = "evaluator"
    /\ decided' = "answer"
    /\ answer' = AnswerAtDecision
    /\ events' = events \o <<NewAction("answer"), AnswerStream(AnswerAtDecision.isFinal)>>
    /\ calls' = [calls EXCEPT !.answer = @ + 1]
    /\ pc' = "done"
    /\ UNCHANGED <<outsideLoop, maxSteps, step, searchHistory, queries, searchResults, thrown>>

\* getNextAction rejects
EvaluatorFails ==
    /\ pc = "evaluator"
    /\ Catch("evaluator")

LoopNext ==
    \/ StartStep
    \/ MaxStepsReached
    \/ \E n \in RawPlanSizes : RewriterReturns(n)
    \/ \E n \in RawPlanSizes : RewriterRejects(n)
    \/ RewriterFails
    \/ \E i \in 1..MaxQueries : SearchCompletes(i)
    \/ \E i \in 1..MaxQueries : SearchFails(i)
    \/ FanoutJoined
    \/ EvaluatorContinues
    \/ EvaluatorAnswers
    \/ EvaluatorFails

\* ---------------------------------------------- POST /api/chat admission
\* checkGlobalRateLimit: const allowed = count < maxRequests
GlobalAllowed(count) == count < GlobalMaxRequests

\* checkRateLimit: allowed: requestCount < DAILY_REQUEST_LIMIT
DailyAllowed(count) == count < DAILY_REQUEST_LIMIT

\* checkRateLimit: if (isAdmin) return {allowed: true, ...} before the count is read
UserAllowedNoBypass(admin, count) == DailyAllowed(count)
UserAllowed(admin, count) == admin \/ DailyAllowed(count)

\* POST: if (!isAdmin) { await incrementRequestCount(userId) }
AfterUserCheck(admin) == IF ~admin THEN "increment" ELSE "streaming"

\* the requests of the day that came and went before the modelled ones were
\* served one after the other: each admitted one incremented the counter, and
\* the user has one request of the quota left, or none
AdmitInit ==
    /\ now = 0
    /\ globalCount = 0
    /\ dailyCount \in {DAILY_REQUEST_LIMIT - 1, DAILY_REQUEST_LIMIT}
    /\ admitted = dailyCount
    /\ maxRetries \in {0, ConfiguredMaxRetries}
    /\ isAdmin \in BOOLEAN
    /\ storeUp = TRUE
    /\ rpc = [r \in Requests |-> "start"]
    /\ resetTime = [r \in Requests |-> 0]
    /\ retryCount = [r \in Requests |-> FreshRetryCount]
    /\ rounds = [r \in Requests |-> 0]
    /\ failOpen = [r \in Requests |-> FALSE]
    /\ writes = [r \in Requests |-> [global |-> 0, daily |-> 0]]
    /\ IdleLoop /\ IdleCache /\ IdleKey /\ IdleScrape /\ IdleSearch /\ IdleStream /\ IdleChat /\ IdleGuard /\ IdleCancel /\ IdlePersist

\* time passes into the next window, whose key does not exist yet
Tick(last) ==
    /\ now < last
    /\ now' = now + 1
    /\ globalCount' = 0
    /\ UNCHANGED <<outsideAdmit, dailyCount, maxRetries, rpc, resetTime,
                   retryCount, writes, admitted, isAdmin, storeUp, rounds, failOpen>>

\* the Redis server becomes unreachable: every later command rejects
StoreGoesDown ==
    /\ storeUp
    /\ storeUp' = FALSE
    /\ UNCHANGED <<outsideAdmit, now, globalCount, dailyCount, maxRetries, rpc, resetTime,
                   retryCount, writes, admitted, isAdmin, rounds, failOpen>>

\* a request of another user passes checkGlobalRateLimit and recordRateLimit:
\* the global counters are shared by all users
OtherUserRecorded ==
    /\ storeUp
    /\ GlobalAllowed(globalCount)
    /\ globalCount' = globalCount + 1
    /\ UNCHANGED <<outsideAdmit, now, dailyCount, maxRetries, rpc, resetTime, retryCount,
                   writes, admitted, isAdmin, storeUp, rounds, failOpen>>

\* POST: checkGlobalRateLimit(config) finds the window open
GlobalCheckAllows(r) ==
    /\ rpc[r] = "start"
    /\ storeUp
    /\ GlobalAllowed(globalCount)
    /\ rpc' = [rpc EXCEPT ![r] = "record"]
    /\ UNCHANGED <<outsideAdmit, now, globalCount, dailyCount, maxRetries, resetTime,
                   retryCount, writes, admitted, isAdmin, storeUp, rounds, failOpen>>

\* POST: checkGlobalRateLimit(config) finds the window full; retry() is called
GlobalCheckDenies(r) ==
    /\ rpc[r] = "start"
    /\ storeUp
    /\ ~GlobalAllowed(globalCount)
    /\ rpc' = [rpc EXCEPT ![r] = "retry"]
    /\ resetTime' = [resetTime EXCEPT ![r] = now + 1]
    /\ retryCount' = [retryCount EXCEPT ![r] = FreshRetryCount]
    /\ UNCHANGED <<outsideAdmit, now, globalCount, dailyCount, maxRetries, writes, admitted,
                   isAdmin, storeUp, rounds, failOpen>>

\* POST: redis.get rejects in checkGlobalRateLimit; its catch returns allowed: true
GlobalCheckFailsOpen(r) ==
    /\ rpc[r] = "start"
    /\ ~storeUp
    /\ failOpen' = [failOpen EXCEPT ![r] = TRUE]
    /\ rpc' = [rpc EXCEPT ![r] = "record"]
    /\ UNCHANGED <<outsideAdmit, now, globalCount, dailyCount, maxRetries, resetTime,
                   retryCount, writes, admitted, isAdmin, storeUp, rounds>>

\* retry(): the wait until resetTime is over and the re-check allows
RetryAllows(r) ==
    /\ rpc[r] = "retry"
    /\ now >= resetTime[r]
    /\ storeUp
    /\ GlobalAllowed(globalCount)
    /\ rounds' = [rounds EXCEPT ![r] = @ + 1]
    /\ rpc' = [rpc EXCEPT ![r] = "record"]
    /\ UNCHANGED <<outsideAdmit, now, globalCount, dailyCount, maxRetries, resetTime,
                   retryCount, writes, admitted, isAdmin, storeUp, failOpen>>

\* retry(): redis.get rejects in the re-check, which answers allowed: true
RetryFailsOpen(r) ==
    /\ rpc[r] = "retry"
    /\ now >= resetTime[r]
    /\ ~storeUp
    /\ rounds' = [rounds EXCEPT ![r] = @ + 1]
    /\ failOpen' = [failOpen EXCEPT ![r] = TRUE]
    /\ rpc' = [rpc EXCEPT ![r] = "record"]
    /\ UNCHANGED <<outsideAdmit, now, globalCount, dailyCount, maxRetries, resetTime,
                   retryCount, writes, admitted, isAdmin, storeUp>>

\* retry(): the re-check denies and retryCount >= maxRetries: POST answers 429
RetryGivesUp(r) ==
    /\ rpc[r] = "retry"
    /\ now >= resetTime[r]
    /\ storeUp
    /\ ~GlobalAllowed(globalCount)
    /\ retryCount[r] >= maxRetries
    /\ rounds' = [rounds EXCEPT ![r] = @ + 1]
    /\ rpc' = [rpc EXCEPT ![r] = "denied_global"]
    /\ UNCHANGED <<outsideAdmit, now, globalCount, dailyCount, maxRetries, resetTime,
                   retryCount, writes, admitted, isAdmin, storeUp, failOpen>>

\* retry(): the re-check denies; retryCount++ in this closure, then
\* retryResult.retry() runs in the closure of the re-check
RetryAgain(r) ==
    /\ rpc[r] = "retry"
    /\ now >= resetTime[r]
    /\ storeUp
    /\ ~GlobalAllowed(globalCount)
    /\ ~(retryCount[r] >= maxRetries)
    /\ rounds' = [rounds EXCEPT ![r] = @ + 1]
    /\ resetTime' = [resetTime EXCEPT ![r] = now + 1]
    /\ retryCount' = [retryCount EXCEPT ![r] = FreshRetryCount]
    /\ UNCHANGED <<outsideAdmit, now, globalCount, dailyCount, maxRetries, rpc, writes,
                   admitted, isAdmin, storeUp, failOpen>>

\* POST: await recordRateLimit(config): INCR + EXPIRE of the current window's key
RecordRateLimit(r) ==
    /\ rpc[r] = "record"
    /\ storeUp
    /\ globalCount' = globalCount + 1
    /\ writes' = [writes EXCEPT ![r].global = @ + 1]
    /\ rpc' = [rpc EXCEPT ![r] = "checkUser"]
    /\ UNCHANGED <<outsideAdmit, now, dailyCount, maxRetries, resetTime, retryCount,
                   admitted, isAdmin, storeUp, rounds, failOpen>>

\* recordRateLimit: pipeline.exec() rejects or gives no results; the catch logs
\* and rethrows, and POST has no handler around the call
RecordRateLimitThrows(r) ==
    /\ rpc[r] = "record"
    /\ ~storeUp
    /\ rpc' = [rpc EXCEPT ![r] = "error"]
    /\ UNCHANGED <<outsideAdmit, now, globalCount, dailyCount, maxRetries, resetTime,
                   retryCount, writes, admitted, isAdmin, storeUp, rounds, failOpen>>

\* recordRateLimit: pipeline.exec() resolves with an [error, result] pair per
\* command; results is not null, nothing is thrown and nothing was counted
RecordRateLimitLost(r) ==
    /\ rpc[r] = "record"
    /\ ~storeUp
    /\ rpc' = [rpc EXCEPT ![r] = "checkUser"]
    /\ UNCHANGED <<outsideAdmit, now, globalCount, dailyCount, maxRetries, resetTime,
                   retryCount, writes, admitted, isAdmin, storeUp, rounds, failOpen>>

\* POST: checkRateLimit(userId) allows: an admin at once, another user by the count
UserCheckAllows(r) ==
    /\ rpc[r] = "checkUser"
    /\ storeUp
    /\ UserAllowed(isAdmin, dailyCount)
    /\ admitted' = admitted + 1
    /\ rpc' = [rpc EXCEPT ![r] = AfterUserCheck(isAdmin)]
    /\ UNCHANGED <<outsideAdmit, now, globalCount, dailyCount, maxRetries, resetTime,
                   retryCount, writes, isAdmin, storeUp, rounds, failOpen>>

\* POST: checkRateLimit(userId) denies: 429
UserCheckDenies(r) ==
    /\ rpc[r] = "checkUser"
    /\ storeUp
    /\ ~UserAllowed(isAdmin, dailyCount)
    /\ rpc' = [rpc EXCEPT ![r] = "denied_user"]
    /\ UNCHANGED <<outsideAdmit, now, globalCount, dailyCount, maxRetries, resetTime,
                   retryCount, writes, admitted, isAdmin, storeUp, rounds, failOpen>>

\* POST: redis.get rejects in getUserName; checkRateLimit and POST reject
UserCheckThrows(r) ==
    /\ rpc[r] = "checkUser"
    /\ ~storeUp
    /\ rpc' = [rpc EXCEPT ![r] = "error"]
    /\ UNCHANGED <<outsideAdmit, now, globalCount, dailyCount, maxRetries, resetTime,
                   retryCount, writes, admitted, isAdmin, storeUp, rounds, failOpen>>

\* POST: await incrementRequestCount(userId): INCR + EXPIRE of the daily key
IncrementRequestCount(r) ==
    /\ rpc[r] = "increment"
    /\ storeUp
    /\ dailyCount' = dailyCount + 1
    /\ writes' = [writes EXCEPT ![r].daily = @ + 1]
    /\ rpc' = [rpc EXCEPT ![r] = "streaming"]
    /\ UNCHANGED <<outsideAdmit, now, globalCount, maxRetries, resetTime, retryCount,
                   admitted, isAdmin, storeUp, rounds, failOpen>>

\* incrementRequestCount with the store gone: results?.[0]?.[1] is undefined
\* and 1 is returned, or exec() rejects and POST rejects
IncrementRequestCountLost(r, rejects) ==
    /\ rpc[r] = "increment"
    /\ ~storeUp
    /\ rpc' = [rpc EXCEPT ![r] = IF rejects THEN "error" ELSE "streaming"]
    /\ UNCHANGED <<outsideAdmit, now, globalCount, dailyCount, maxRetries, resetTime,
                   retryCount, writes, admitted, isAdmin, storeUp, rounds, failOpen>>

AdmitNext ==
    \/ Tick(MaxWindow)
    \/ StoreGoesDown
    \/ OtherUserRecorded
    \/ \E r \in Requests : GlobalCheckAllows(r)
    \/ \E r \in Requests : GlobalCheckDenies(r)
    \/ \E r \in Requests : GlobalCheckFailsOpen(r)
    \/ \E r \in Requests : RetryAllows(r)
    \/ \E r \in Requests : RetryFailsOpen(r)
    \/ \E r \in Requests : RetryGivesUp(r)
    \/ \E r \in Requests : RetryAgain(r)
    \/ \E r \in Requests : RecordRateLimit(r)
    \/ \E r \in Requests : RecordRateLimitThrows(r)
    \/ \E r \in Requests : RecordRateLimitLost(r)
    \/ \E r \in Requests : UserCheckAllows(r)
    \/ \E r \in Requests : UserCheckDenies(r)
    \/ \E r \in Requests : UserCheckThrows(r)
    \/ \E r \in Requests : IncrementRequestCount(r)
    \/ \E r \in Requests, rejects \in BOOLEAN : IncrementRequestCountLost(r, rejects)

\* one request of a non-admin user meets the traffic of other users in window
\* after window; the store stays reachable
RetryInit ==
    /\ now = 0
    /\ globalCount \in 0..GlobalMaxRequests
    /\ dailyCount \in 0..DAILY_REQUEST_LIMIT
    /\ admitted = dailyCount
    /\ maxRetries \in RetryBudgets
    /\ isAdmin = FALSE
    /\ storeUp = TRUE
    /\ rpc = [r \in Requests |-> "start"]
    /\ resetTime = [r \in Requests |-> 0]
    /\ retryCount = [r \in Requests |-> FreshRetryCount]
    /\ rounds = [r \in Requests |-> 0]
    /\ failOpen = [r \in Requests |-> FALSE]
    /\ writes = [r \in Requests |-> [global |-> 0, daily |-> 0]]
    /\ IdleLoop /\ IdleCache /\ IdleKey /\ IdleScrape /\ IdleSearch /\ IdleStream /\ IdleChat /\ IdleGuard /\ IdleCancel /\ IdlePersist

RetryNext ==
    \/ Tick(MaxRetryWindow)
    \/ OtherUserRecorded
    \/ GlobalCheckAllows(TheRequest)
    \/ GlobalCheckDenies(TheRequest)
    \/ RetryAllows(TheRequest)
    \/ RetryGivesUp(TheRequest)
    \/ RetryAgain(TheRequest)
    \/ RecordRateLimit(TheRequest)
    \/ UserCheckAllows(TheRequest)
    \/ UserCheckDenies(TheRequest)
    \/ IncrementRequestCount(TheRequest)

\* ------------------------------------------------------------------- JSON
\* values as JSON.stringify sees them; text is a sequence of characters
JStr(s) == [t |-> "string", chars |-> s, num |-> 0, items |-> <<>>]
JNum(n) == [t |-> "number", chars |-> <<>>, num |-> n, items |-> <<>>]
\* an object: its properties <<name, value>> in insertion order
JObj(props) == [t |-> "object", chars |-> <<>>, num |-> 0, items |-> props]
JArr(elems) == [t |-> "array", chars |-> <<>>, num |-> 0, items |-> elems]
\* true is num 1, false is num 0
JBool(b) == [t |-> "boolean", chars |-> <<>>, num |-> IF b THEN 1 ELSE 0, items |-> <<>>]

Quoted(s) == <<"\"">> \o s \o <<"\"">>

RECURSIVE JSONStringify(_)
RECURSIVE StringifyProps(_, _)
RECURSIVE StringifyElems(_, _)
JSONStringify(v) ==
    CASE v.t = "string" -> Quoted(v.chars)
      [] v.t = "number" -> <<ToString(v.num)>>
      [] v.t = "boolean" -> IF v.num = 1 THEN <<"t", "r", "u", "e">> ELSE <<"f", "a", "l", "s", "e">>
      [] v.t = "object" -> <<"{">> \o StringifyProps(v.items, 1) \o <<"}">>
      [] v.t = "array" -> <<"[">> \o StringifyElems(v.items, 1) \o <<"]">>
StringifyProps(ps, i) ==
    IF i > Len(ps) THEN <<>>
    ELSE (IF i > 1 THEN <<",">> ELSE <<>>) \o Quoted(ps[i][1]) \o <<":">>
         \o JSONStringify(ps[i][2]) \o StringifyProps(ps, i + 1)
StringifyElems(es, i) ==
    IF i > Len(es) THEN <<>>
    ELSE (IF i > 1 THEN <<",">> ELSE <<>>) \o JSONStringify(es[i]) \o StringifyElems(es, i + 1)

\* ---------------------------------------------------------- cacheWithRedis
\* const key = `${keyPrefix}${CACHE_KEY_SEPARATOR}${JSON.stringify(args)}`
CACHE_KEY_SEPARATOR == <<":">>
CacheKey(keyPrefix, args) == keyPrefix \o CACHE_KEY_SEPARATOR \o JSONStringify(JArr(args))

\* what the arguments of a cached call are made of: "1" and 1, two strings,
\* one object written with its properties in either order
KeyElements == {
    JStr(<<"1">>), JNum(1), JStr(<<"a">>), JStr(<<"b">>),
    JObj(<< <<<<"a">>, JNum(1)>>, <<<<"b">>, JNum(2)>> >>),
    JObj(<< <<<<"b">>, JNum(2)>>, <<<<"a">>, JNum(1)>> >>) }
RECURSIVE ArgListsUpTo(_)
ArgListsUpTo(n) ==
    IF n = 0 THEN {<<>>}
    ELSE ArgListsUpTo(n - 1) \cup {Append(l, e) : l \in {m \in ArgListsUpTo(n - 1) : Len(m) = n - 1}, e \in KeyElements}
KeyPrefixes == {<<"p">>, <<"q">>}
KeyInputs == [keyPrefix : KeyPrefixes, args : ArgListsUpTo(MaxArgs)]
NoKey == <<>>

KeyInit ==
    /\ keyLeft \in KeyInputs
    /\ keyRight \in KeyInputs
    /\ keyOut = <<NoKey, NoKey>>
    /\ IdleLoop /\ IdleAdmit /\ IdleCache /\ IdleScrape /\ IdleSearch /\ IdleStream /\ IdleChat /\ IdleGuard /\ IdleCancel /\ IdlePersist

\* two cached calls build their keys
BuildKeys ==
    /\ keyOut = <<NoKey, NoKey>>
    /\ keyOut' = <<CacheKey(keyLeft.keyPrefix, keyLeft.args), CacheKey(keyRight.keyPrefix, keyRight.args)>>
    /\ UNCHANGED <<outsideKey, keyLeft, keyRight>>

KeyNext == BuildKeys

\* the wrapped function: summarizeURL, whose result is the summarizer's text
SummarizePrefix == <<"s">>
SummarizeArgs == {<<JStr(<<"a">>)>>, <<JStr(<<"b">>)>>}
Summaries == {JObj(<< <<<<"s">>, JStr(<<"x">>)>> >>), JObj(<< <<<<"s">>, JStr(<<"y">>)>> >>)}
\* a wrapped adapter's failed outcome: return {success: false, error: ...}
CrawlFailure == JObj(<< <<<<"s", "u", "c", "c", "e", "s", "s">>, JBool(FALSE)>>, <<<<"e", "r", "r", "o", "r">>, JStr(<<"m">>)>> >>)
\* what fn(...args) resolves with
FnResults == Summaries \cup {CrawlFailure}
NoValue == JObj(<<>>)
\* redis.get of a key that does not exist: null
Nil == <<>>

\* JSON.parse(cachedResult): the value that text is the serialization of
JSONParse(text) == CHOOSE v \in FnResults \cup KeyElements : JSONStringify(v) = text

\* if (cachedResult)
CacheHitNever(cachedResult) == FALSE
CacheHitOnlySuccess(cachedResult) == cachedResult # Nil /\ JSONParse(cachedResult) # CrawlFailure
CacheHit(cachedResult) == cachedResult # Nil

Callers == 1..NumCalls
CacheKeys == {CacheKey(SummarizePrefix, a) : a \in SummarizeArgs}

CacheInit ==
    /\ cache = [k \in CacheKeys |-> Nil]
    /\ cpc = [c \in Callers |-> "idle"]
    /\ cargs = [c \in Callers |-> <<>>]
    /\ cret = [c \in Callers |-> NoValue]
    /\ spy = [c \in Callers |-> FALSE]
    /\ cfirst = [c \in Callers |-> NoValue]
    /\ clast = [c \in Callers |-> NoValue]
    /\ firstDone = [k \in CacheKeys |-> NoValue]
    /\ lastWritten = [k \in CacheKeys |-> NoValue]
    /\ IdleLoop /\ IdleAdmit /\ IdleKey /\ IdleScrape /\ IdleSearch /\ IdleStream /\ IdleChat /\ IdleGuard /\ IdleCancel /\ IdlePersist

\* a call of the wrapped function's cached version: redis.get answers a text:
\* JSON.parse of it is returned and fn is not called
CachedCallHits(c, a) ==
    /\ cpc[c] = "idle"
    /\ storeUp
    /\ CacheHit(cache[CacheKey(SummarizePrefix, a)])
    /\ cargs' = [cargs EXCEPT ![c] = a]
    /\ cret' = [cret EXCEPT ![c] = JSONParse(cache[CacheKey(SummarizePrefix, a)])]
    /\ cfirst' = [cfirst EXCEPT ![c] = firstDone[CacheKey(SummarizePrefix, a)]]
    /\ clast' = [clast EXCEPT ![c] = lastWritten[CacheKey(SummarizePrefix, a)]]
    /\ cpc' = [cpc EXCEPT ![c] = "returned"]
    /\ UNCHANGED <<outsideCache, cache, spy, firstDone, lastWritten>>

\* redis.get answers null: fn(...args) is called
CachedCallMisses(c, a) ==
    /\ cpc[c] = "idle"
    /\ storeUp
    /\ ~CacheHit(cache[CacheKey(SummarizePrefix, a)])
    /\ cargs' = [cargs EXCEPT ![c] = a]
    /\ cfirst' = [cfirst EXCEPT ![c] = firstDone[CacheKey(SummarizePrefix, a)]]
    /\ clast' = [clast EXCEPT ![c] = lastWritten[CacheKey(SummarizePrefix, a)]]
    /\ spy' = [spy EXCEPT ![c] = TRUE]
    /\ cpc' = [cpc EXCEPT ![c] = "fn"]
    /\ UNCHANGED <<outsideCache, cache, cret, firstDone, lastWritten>>

\* redis.get rejects: nothing catches it, the cached call rejects
CachedCallReadFails(c, a) ==
    /\ cpc[c] = "idle"
    /\ ~storeUp
    /\ cargs' = [cargs EXCEPT ![c] = a]
    /\ cfirst' = [cfirst EXCEPT ![c] = firstDone[CacheKey(SummarizePrefix, a)]]
    /\ clast' = [clast EXCEPT ![c] = lastWritten[CacheKey(SummarizePrefix, a)]]
    /\ cpc' = [cpc EXCEPT ![c] = "rejected"]
    /\ UNCHANGED <<outsideCache, cache, cret, spy, firstDone, lastWritten>>

\* fn resolves with result v; redis.set(key, JSON.stringify(result), "EX", ...)
FnResolves(c, v) ==
    /\ cpc[c] = "fn"
    /\ cret' = [cret EXCEPT ![c] = v]
    /\ cpc' = [cpc EXCEPT ![c] = "set"]
    /\ UNCHANGED <<outsideCache, cache, cargs, spy, cfirst, clast,
                   firstDone, lastWritten>>

\* redis.set resolves: the call returns result
CacheWritten(c) ==
    /\ cpc[c] = "set"
    /\ storeUp
    /\ cache' = [cache EXCEPT ![CacheKey(SummarizePrefix, cargs[c])] = JSONStringify(cret[c])]
    /\ lastWritten' = [lastWritten EXCEPT ![CacheKey(SummarizePrefix, cargs[c])] = cret[c]]
    /\ firstDone' = [firstDone EXCEPT ![CacheKey(SummarizePrefix, cargs[c])] =
                        IF @ = NoValue THEN cret[c] ELSE @]
    /\ cpc' = [cpc EXCEPT ![c] = "returned"]
    /\ UNCHANGED <<outsideCache, cargs, cret, spy, cfirst, clast>>

\* redis.set rejects: the result of fn is dropped, the cached call rejects
CacheWriteFails(c) ==
    /\ cpc[c] = "set"
    /\ ~storeUp
    /\ cpc' = [cpc EXCEPT ![c] = "rejected"]
    /\ UNCHANGED <<outsideCache, cache, cargs, cret, spy, cfirst, clast,
                   firstDone, lastWritten>>

\* CACHE_EXPIRY_SECONDS after its last write the key is gone
CacheExpires(k) ==
    /\ cache[k] # Nil
    /\ cache' = [cache EXCEPT ![k] = Nil]
    /\ firstDone' = [firstDone EXCEPT ![k] = NoValue]
    /\ lastWritten' = [lastWritten EXCEPT ![k] = NoValue]
    /\ UNCHANGED <<outsideCache, cpc, cargs, cret, spy, cfirst, clast>>

CacheNext ==
    \/ StoreGoesDown
    \/ \E c \in Callers, a \in SummarizeArgs : CachedCallHits(c, a)
    \/ \E c \in Callers, a \in SummarizeArgs : CachedCallMisses(c, a)
    \/ \E c \in Callers, a \in SummarizeArgs : CachedCallReadFails(c, a)
    \/ \E c \in Callers, v \in FnResults : FnResolves(c, v)
    \/ \E c \in Callers : CacheWritten(c)
    \/ \E c \in Callers : CacheWriteFails(c)
    \/ \E k \in CacheKeys : CacheExpires(k)

\* -------------------------------------------------------- jinaCrawlWebsite
\* while (attempts < maxRetries)
ScrapeLoopGuard(a, m) == a < m
\* attempts++
NextAttemptsStuck(a) == a
NextAttempts(a) == a + 1
\* if (attempts === maxRetries) return result
LastAttempt(a, m) == a = m

\* Math.pow(2, n)
RECURSIVE Pow2(_)
Pow2(n) == IF n = 0 THEN 1 ELSE 2 * Pow2(n - 1)
Min(a, b) == IF a < b THEN a ELSE b

\* const delay = Math.min(MIN_DELAY_MS * Math.pow(2, attempts), MAX_DELAY_MS)
BackoffDelay(a) == Min(MIN_DELAY_MS * Pow2(a), MAX_DELAY_MS)

CrawledUrls == 1..NumUrls

\* jinaBulkCrawlWebsites: one jinaCrawlWebsite per URL, all with options.maxRetries
ScrapeInit ==
    /\ scrMaxRetries \in 0..MaxScrapeRetries
    /\ attempts = [u \in CrawledUrls |-> 0]
    /\ apiCalls = [u \in CrawledUrls |-> 0]
    /\ spc = [u \in CrawledUrls |-> "loop"]
    /\ scrResult = [u \in CrawledUrls |-> "none"]
    /\ delays = [u \in CrawledUrls |-> <<>>]
    /\ IdleLoop /\ IdleAdmit /\ IdleCache /\ IdleKey /\ IdleSearch /\ IdleStream /\ IdleChat /\ IdleGuard /\ IdleCancel /\ IdlePersist

\* loop test true: await callJinaReaderAPI(url, crawlOptions)
CallReader(u) ==
    /\ spc[u] = "loop"
    /\ ScrapeLoopGuard(attempts[u], scrMaxRetries)
    /\ apiCalls' = [apiCalls EXCEPT ![u] = @ + 1]
    /\ spc' = [spc EXCEPT ![u] = "api"]
    /\ UNCHANGED <<outsideScrape, scrMaxRetries, attempts, scrResult, delays>>

\* loop test false: return {success: false, error: "Maximum retry attempts reached"}
RetriesExhausted(u) ==
    /\ spc[u] = "loop"
    /\ ~ScrapeLoopGuard(attempts[u], scrMaxRetries)
    /\ scrResult' = [scrResult EXCEPT ![u] = "failure"]
    /\ spc' = [spc EXCEPT ![u] = "returned"]
    /\ UNCHANGED <<outsideScrape, scrMaxRetries, attempts, apiCalls, delays>>

\* result.success: return result
ReaderSucceeds(u) ==
    /\ spc[u] = "api"
    /\ scrResult' = [scrResult EXCEPT ![u] = "success"]
    /\ spc' = [spc EXCEPT ![u] = "returned"]
    /\ UNCHANGED <<outsideScrape, scrMaxRetries, attempts, apiCalls, delays>>

\* the reader answers success: false: attempts++, then the last result is
\* returned or the backoff delay is awaited
ReaderFails(u) ==
    /\ spc[u] = "api"
    /\ attempts' = [attempts EXCEPT ![u] = NextAttempts(@)]
    /\ IF LastAttempt(attempts'[u], scrMaxRetries)
       THEN /\ scrResult' = [scrResult EXCEPT ![u] = "failure"]
            /\ spc' = [spc EXCEPT ![u] = "returned"]
            /\ UNCHANGED delays
       ELSE /\ spc' = [spc EXCEPT ![u] = "backoff"]
            /\ delays' = [delays EXCEPT ![u] = Append(@, BackoffDelay(attempts'[u]))]
            /\ UNCHANGED scrResult
    /\ UNCHANGED <<outsideScrape, scrMaxRetries, apiCalls>>

\* the backoff timer fires
BackoffOver(u) ==
    /\ spc[u] = "backoff"
    /\ spc' = [spc EXCEPT ![u] = "loop"]
    /\ UNCHANGED <<outsideScrape, scrMaxRetries, attempts, apiCalls, scrResult, delays>>

ScrapeStep(u) ==
    \/ CallReader(u)
    \/ RetriesExhausted(u)
    \/ ReaderSucceeds(u)
    \/ ReaderFails(u)
    \/ BackoffOver(u)

ScrapeNext ==
    \/ \E u \in CrawledUrls : CallReader(u)
    \/ \E u \in CrawledUrls : RetriesExhausted(u)
    \/ \E u \in CrawledUrls : ReaderSucceeds(u)
    \/ \E u \in CrawledUrls : ReaderFails(u)
    \/ \E u \in CrawledUrls : BackoffOver(u)

\* ---------------------------------------------------------- searchAndScrape
\* text is a sequence of one-character strings
EmptyText == <<>>
BlankText == <<" ", " ">>
PageText == <<" ", "p", " ">>
Snippet(i) == <<"s", ToString(i)>>
LlmSummary(i) == <<"m", ToString(i)>>

\* an optional field: absent, or present with a value
Absent == <<>>
Present(v) == <<v>>

\* String.prototype.trim
RECURSIVE TrimStart(_)
TrimStart(s) == IF s # <<>> /\ Head(s) = " " THEN TrimStart(Tail(s)) ELSE s

RECURSIVE TrimEnd(_)
TrimEnd(s) ==
    IF s # <<>> /\ s[Len(s)] = " "
    THEN TrimEnd(SubSeq(s, 1, Len(s) - 1)) ELSE s

Trim(s) == TrimEnd(TrimStart(s))

\* what bulkCrawlWebsites reports for one URL
CrawlFailed == [success |-> FALSE, data |-> EmptyText]
CrawlData(d) == [success |-> TRUE, data |-> d]
CrawlOutcomes == {CrawlFailed} \cup {CrawlData(d) : d \in {EmptyText, BlankText, PageText}}

\* processedScrapeResults[result.url] ?? ""
ScrapedContentOf(outcome) == IF outcome.success THEN outcome.data ELSE EmptyText

\* result.scrapedContent && result.scrapedContent.trim().length > 0
HasScrapedContent(result) ==
    result.scrapedContent # EmptyText /\ Len(Trim(result.scrapedContent)) > 0

NoSearchEntry == <<>>

SearchInit ==
    /\ sasPc = "search"
    /\ initialResults = <<>>
    /\ crawl = <<>>
    /\ combined = <<>>
    /\ summarizing = {}
    /\ sasEntry = NoSearchEntry
    /\ IdleLoop /\ IdleAdmit /\ IdleCache /\ IdleKey /\ IdleScrape /\ IdleStream /\ IdleChat /\ IdleGuard /\ IdleCancel /\ IdlePersist

\* searchSerper resolves with n organic results
SearchSerperResolves(n) ==
    /\ sasPc = "search"
    /\ initialResults' = [i \in 1..n |-> [url |-> i, snippet |-> Snippet(i)]]
    /\ sasPc' = "crawl"
    /\ UNCHANGED <<outsideSearch, crawl, combined, summarizing, sasEntry>>

\* searchSerper rejects: the catch rethrows
SearchSerperRejects ==
    /\ sasPc = "search"
    /\ sasPc' = "thrown"
    /\ UNCHANGED <<outsideSearch, initialResults, crawl, combined, summarizing,
                   sasEntry>>

\* bulkCrawlWebsites resolves; the results are combined with their scraped
\* content and summarizeURL is called for those that have some
BulkCrawlResolves(outcomes) ==
    /\ sasPc = "crawl"
    /\ crawl' = outcomes
    /\ combined' =
          [i \in DOMAIN initialResults |->
              [url |-> initialResults[i].url,
               snippet |-> initialResults[i].snippet,
               scrapedContent |-> ScrapedContentOf(outcomes[i]),
               summary |-> Absent]]
    /\ summarizing' = {i \in DOMAIN initialResults : HasScrapedContent(combined'[i])}
    /\ sasPc' = "summarize"
    /\ UNCHANGED <<outsideSearch, initialResults, sasEntry>>

\* bulkCrawlWebsites rejects: the catch rethrows
BulkCrawlRejects ==
    /\ sasPc = "crawl"
    /\ sasPc' = "thrown"
    /\ UNCHANGED <<outsideSearch, initialResults, crawl, combined, summarizing,
                   sasEntry>>

\* summarizeURL resolves for result i
SummarizeURLResolves(i) ==
    /\ sasPc = "summarize"
    /\ i \in summarizing
    /\ combined' = [combined EXCEPT ![i].summary = Present(LlmSummary(i))]
    /\ summarizing' = summarizing \ {i}
    /\ UNCHANGED <<outsideSearch, sasPc, initialResults, crawl, sasEntry>>

\* summarizeURL rejects for result i: the original result is kept
SummarizeURLRejects(i) ==
    /\ sasPc = "summarize"
    /\ i \in summarizing
    /\ summarizing' = summarizing \ {i}
    /\ UNCHANGED <<outsideSearch, sasPc, initialResults, crawl, combined, sasEntry>>

\* Promise.all(summaryPromises) resolves and the entry is returned
SearchAndScrapeReturns ==
    /\ sasPc = "summarize"
    /\ summarizing = {}
    /\ sasEntry' = <<[query |-> "q", results |-> combined]>>
    /\ sasPc' = "returned"
    /\ UNCHANGED <<outsideSearch, initialResults, crawl, combined, summarizing>>

SearchNext ==
    \/ \E n \in 0..MaxOrganic : SearchSerperResolves(n)
    \/ SearchSerperRejects
    \/ \E outcomes \in [DOMAIN initialResults -> CrawlOutcomes] :
          BulkCrawlResolves(outcomes)
    \/ BulkCrawlRejects
    \/ \E i \in 1..MaxOrganic : SummarizeURLResolves(i)
    \/ \E i \in 1..MaxOrganic : SummarizeURLRejects(i)
    \/ SearchAndScrapeReturns

\* ------------------------------------------------------ resumable streams
Chats == 1..NumChats

\* generateId(): a fresh non-empty id for the n-th run
GenerateId(n) == "stream" \o ToString(n)

\* getStreamId: streamId ?? ""
NoStreamId == ""
GetStreamId(stored) == IF stored = Absent THEN NoStreamId ELSE stored[1]

\* GET: if (!streamId) 404, else new Response(resumable stream)
GetStatus(streamId) == IF streamId = NoStreamId THEN 404 ELSE 200

\* a run of chat c has been started and has not finished
InFlight(c) == \E n \in DOMAIN runs : runs[n].chat = c /\ ~runs[n].finished

NoGet == [status |-> 0, inFlight |-> FALSE]

StreamInit ==
    /\ streamKeys = [c \in Chats |-> Absent]
    /\ runs = <<>>
    /\ lastGet = [c \in Chats |-> NoGet]
    /\ IdleLoop /\ IdleAdmit /\ IdleCache /\ IdleKey /\ IdleScrape /\ IdleSearch /\ IdleChat /\ IdleGuard /\ IdleCancel /\ IdlePersist

\* POST for chat c: a stream id is generated and stored, the run starts
PostChat(c) ==
    /\ Len(runs) < MaxRuns
    /\ streamKeys' = [streamKeys EXCEPT ![c] = Present(GenerateId(Len(runs) + 1))]
    /\ runs' = Append(runs, [chat |-> c, finished |-> FALSE])
    /\ UNCHANGED <<outsideStream, lastGet>>

\* the stream of run n ends: onFinish saves the chat; the stored id stays
RunFinishes(n) ==
    /\ n \in DOMAIN runs
    /\ ~runs[n].finished
    /\ runs' = [runs EXCEPT ![n].finished = TRUE]
    /\ UNCHANGED <<outsideStream, streamKeys, lastGet>>

\* the stored id of chat c expires, six hours after it was set: no run of
\* the chat lasts that long
StreamKeyExpires(c) ==
    /\ streamKeys[c] # Absent
    /\ ~InFlight(c)
    /\ streamKeys' = [streamKeys EXCEPT ![c] = Absent]
    /\ UNCHANGED <<outsideStream, runs, lastGet>>

\* GET ?chatId=c
GetChat(c) ==
    /\ lastGet' = [lastGet EXCEPT ![c] =
          [status |-> GetStatus(GetStreamId(streamKeys[c])),
           inFlight |-> InFlight(c)]]
    /\ UNCHANGED <<outsideStream, streamKeys, runs>>

StreamNext ==
    \/ \E c \in Chats : PostChat(c)
    \/ \E n \in 1..MaxRuns : RunFinishes(n)
    \/ \E c \in Chats : StreamKeyExpires(c)
    \/ \E c \in Chats : GetChat(c)

\* -------------------------------------------------------------- deleteChat
Users == {"U", "V"}
NoUser == ""
Deletes == 1..NumDeletes

\* deleteChat(chatId, userId) of "~/server/db/chat" and
\* deleteChat({userId, chatId}) of "~/server/db/queries"
Positional == "positional"
Checked == "checked"
DeleteChatRevisions == {Positional, Checked}

\* owned: whether the chat was the caller's when the call was made
NoCall == [user |-> NoUser, revision |-> "", owned |-> FALSE]
NothingRemoved == [messages |-> 0, chat |-> FALSE]

\* findFirst where and(eq(chats.id, chatId), eq(chats.userId, userId))
ExistingChat(userId) == chatOwner # NoUser /\ chatOwner = userId

\* delete(chats).where(and(eq(chats.id, chatId), eq(chats.userId, userId)))
OwnedRowMatches(userId) == chatOwner # NoUser /\ chatOwner = userId

\* delete(chats).where(eq(chats.id, chatId))
RowMatches == chatOwner # NoUser

ChatInit ==
    /\ chatOwner \in Users \cup {NoUser}
    /\ messageRows \in 0..MaxMessages
    /\ (chatOwner = NoUser => messageRows = 0)
    /\ dpc = [d \in Deletes |-> "idle"]
    /\ dcall = [d \in Deletes |-> NoCall]
    /\ dret = [d \in Deletes |-> "none"]
    /\ removed = [d \in Deletes |-> NothingRemoved]
    /\ IdleLoop /\ IdleAdmit /\ IdleCache /\ IdleKey /\ IdleScrape /\ IdleSearch /\ IdleGuard /\ IdleCancel /\ IdlePersist
    /\ IdleStream

\* a route handler calls deleteChat for its session's user
DeleteChatCalled(d, userId, revision) ==
    /\ dpc[d] = "idle"
    /\ dcall' = [dcall EXCEPT ![d] = 
          [user |-> userId, revision |-> revision,
           owned |-> chatOwner = userId]]
    /\ dpc' = [dpc EXCEPT ![d] =
          IF revision = Checked THEN "find" ELSE "messages"]
    /\ UNCHANGED <<outsideChat, chatOwner, messageRows, dret, removed>>

\* checked revision: findFirst finds no chat of this id and user
ChatNotFound(d) ==
    /\ dpc[d] = "find"
    /\ ~ExistingChat(dcall[d].user)
    /\ dret' = [dret EXCEPT ![d] = "CHAT_NOT_FOUND"]
    /\ dpc' = [dpc EXCEPT ![d] = "returned"]
    /\ UNCHANGED <<outsideChat, chatOwner, messageRows, dcall, removed>>

\* checked revision: findFirst finds the caller's chat
ChatFound(d) ==
    /\ dpc[d] = "find"
    /\ ExistingChat(dcall[d].user)
    /\ dpc' = [dpc EXCEPT ![d] = "messages"]
    /\ UNCHANGED <<outsideChat, chatOwner, messageRows, dcall, dret, removed>>

\* delete(messages).where(eq(messages.chatId, chatId))
DeleteMessages(d) ==
    /\ dpc[d] = "messages"
    /\ removed' = [removed EXCEPT ![d].messages = messageRows]
    /\ messageRows' = 0
    /\ dpc' = [dpc EXCEPT ![d] = "chat"]
    /\ UNCHANGED <<outsideChat, chatOwner, dcall, dret>>

\* delete(chats) with the revision's where clause, and the return
DeleteChatRow(d) ==
    /\ dpc[d] = "chat"
    /\ LET matches == IF dcall[d].revision = Checked
                      THEN RowMatches
                      ELSE OwnedRowMatches(dcall[d].user)
       IN /\ chatOwner' = IF matches THEN NoUser ELSE chatOwner
          /\ removed' = [removed EXCEPT ![d].chat = matches]
    /\ dret' = [dret EXCEPT ![d] =
          IF dcall[d].revision = Checked THEN "success" ELSE "result"]
    /\ dpc' = [dpc EXCEPT ![d] = "returned"]
    /\ UNCHANGED <<outsideChat, messageRows, dcall>>

\* a statement of the call fails: the checked revision catches it and
\* returns INTERNAL_ERROR, the positional one rejects
StatementFails(d) ==
    /\ dpc[d] \in {"find", "messages", "chat"}
    /\ dret' = [dret EXCEPT ![d] =
          IF dcall[d].revision = Checked THEN "INTERNAL_ERROR" ELSE "rejected"]
    /\ dpc' = [dpc EXCEPT ![d] = "returned"]
    /\ UNCHANGED <<outsideChat, chatOwner, messageRows, dcall, removed>>

ChatNext ==
    \/ \E d \in Deletes, userId \in Users, revision \in DeleteChatRevisions :
          DeleteChatCalled(d, userId, revision)
    \/ \E d \in Deletes : ChatNotFound(d)
    \/ \E d \in Deletes : ChatFound(d)
    \/ \E d \in Deletes : DeleteMessages(d)
    \/ \E d \in Deletes : DeleteChatRow(d)
    \/ \E d \in Deletes : StatementFails(d)

\* --------------------------------------------------------------- guardrail
\* the refusal is streamed as a short answer of its own
RefusalAnswer == [called |-> TRUE, isFinal |-> FALSE]
Refusal == Ev("ANSWER", -1, "refusal")

\* where the driver goes after a refusal: END, not LOOP
AfterRefusalEntersLoop == "loop"
AfterRefusal == "done"

\* where the driver goes when the classifier errors: fail-open
AfterGuardError == "loop"

GuardInit ==
    /\ maxSteps \in 0..MaxGuardedSteps
    /\ step = 0
    /\ searchHistory = <<>>
    /\ pc = "guard"
    /\ queries = 0
    /\ searchResults = <<>>
    /\ events = <<>>
    /\ thrown = "none"
    /\ decided = "none"
    /\ answer = NoAnswer
    /\ calls = NoCalls
    /\ classification = "none"
    /\ IdleAdmit /\ IdleCache /\ IdleKey /\ IdleScrape /\ IdleSearch /\ IdleStream /\ IdleChat /\ IdleCancel /\ IdlePersist

\* checkIsSafe classifies the message history as "allow": the loop starts
CheckIsSafeAllows ==
    /\ pc = "guard"
    /\ classification' = "allow"
    /\ pc' = "loop"
    /\ UNCHANGED <<outsideGuard, maxSteps, step, searchHistory, queries,
                   searchResults, events, thrown, decided, answer, calls>>

\* checkIsSafe classifies it as "refuse": a short refusal answer, then the end
CheckIsSafeRefuses ==
    /\ pc = "guard"
    /\ classification' = "refuse"
    /\ answer' = RefusalAnswer
    /\ events' = <<Refusal>>
    /\ calls' = [calls EXCEPT !.answer = @ + 1]
    /\ pc' = AfterRefusal
    /\ UNCHANGED <<outsideGuard, maxSteps, step, searchHistory, queries,
                   searchResults, thrown, decided>>

\* the classifier errors: logged, and the loop starts
CheckIsSafeFails ==
    /\ pc = "guard"
    /\ classification' = "error"
    /\ pc' = AfterGuardError
    /\ UNCHANGED <<outsideGuard, maxSteps, step, searchHistory, queries,
                   searchResults, events, thrown, decided, answer, calls>>

GuardNext ==
    \/ CheckIsSafeAllows
    \/ CheckIsSafeRefuses
    \/ CheckIsSafeFails
    \/ LoopNext

\* ------------------------------------------------------------ cancellation
\* searchAndScrape(query, messages, langfuseTraceId): the fourth argument,
\* signal, is left undefined by runAgentLoop
SignalPassed == FALSE

\* the error event a cancelled run is to end with
CancelledError == Ev("ERROR", -1, "cancelled")

\* the awaited calls of a step
InFlightCalls == {"rewriter", "fanout", "evaluator"}

CancelInit ==
    /\ maxSteps \in 0..MaxCancelledSteps
    /\ step = 0
    /\ searchHistory = <<>>
    /\ pc = "loop"
    /\ queries = 0
    /\ searchResults = <<>>
    /\ events = <<>>
    /\ thrown = "none"
    /\ decided = "none"
    /\ answer = NoAnswer
    /\ calls = NoCalls
    /\ cancelledIn = "none"
    /\ persisted = "none"
    /\ IdleAdmit /\ IdleCache /\ IdleKey /\ IdleScrape /\ IdleSearch /\ IdleStream /\ IdleChat /\ IdleGuard /\ IdlePersist

\* the client disconnects while a call of the step is awaited: nothing in
\* runAgentLoop or in the POST handler listens, the run goes on
RequestCancelled ==
    /\ cancelledIn = "none"
    /\ pc \in InFlightCalls
    /\ cancelledIn' = pc
    /\ UNCHANGED <<outsideCancel, loopVars, persisted>>

\* the answer's stream finishes: onFinish assembles the assistant message and
\* upsertChat saves the chat
OnFinishPersists ==
    /\ pc = "done"
    /\ persisted = "none"
    /\ persisted' = IF cancelledIn = "none" THEN "before" ELSE "after"
    /\ UNCHANGED <<outsideCancel, loopVars, cancelledIn>>

CancelNext ==
    \/ RequestCancelled
    \/ OnFinishPersists
    \/ LoopNext

\* ------------------------------------------- onFinish / writeMessageAnnotation
\* serializeAnnotation: a new object with the fields of the annotation's type
serializeAnnotation(annotation) ==
    CASE annotation.type = "NEW_ACTION" ->
            [type |-> annotation.type, action |-> [type |-> annotation.status]]
      [] annotation.type = "ACTION_UPDATE" ->
            [type |-> annotation.type, stepIndex |-> annotation.idx, status |-> annotation.status]
      [] annotation.type = "PLANNING" -> [type |-> annotation.type]
      [] annotation.type = "QUERIES_GENERATED" -> [type |-> annotation.type]
      [] annotation.type = "SEARCH_UPDATE" ->
            [type |-> annotation.type, queryIndex |-> annotation.idx, status |-> annotation.status]

\* annotations.push(serializedAnnotation)
pushUnshift(list, a) == <<a>> \o list
push(list, a) == Append(list, a)

\* no messages row written for the assistant message
NoRow == <<"no row">>

\* the writeMessageAnnotation calls runAgentLoop has made in its iteration so
\* far: the answer's text stream is not one of them
IsAnnotation(e) == e.type # "ANSWER"
WriteCalls == SelectSeq(events, IsAnnotation)
\* how many of them have returned
Returned == IF sunk.iteration = calls.rewriter THEN sunk.n ELSE 0
\* writeMessageAnnotation is called synchronously: the loop goes on, and a
\* callback runs, when the calls made so far have returned
AllReturned == wpc = "idle" /\ Returned >= Len(WriteCalls)

PersistInit ==
    /\ maxSteps \in 0..MaxPersistedSteps
    /\ step = 0
    /\ searchHistory = <<>>
    /\ pc = "loop"
    /\ queries = 0
    /\ searchResults = <<>>
    /\ events = <<>>
    /\ thrown = "none"
    /\ decided = "none"
    /\ answer = NoAnswer
    /\ calls = NoCalls
    /\ annotations = <<>>
    /\ dataStream = <<>>
    /\ sunk = [iteration |-> 0, n |-> 0]
    /\ wpc = "idle"
    /\ fpc = "running"
    /\ savedAnnotations = NoRow
    /\ IdleAdmit /\ IdleCache /\ IdleKey /\ IdleScrape /\ IdleSearch /\ IdleStream /\ IdleChat /\ IdleGuard /\ IdleCancel

\* writeMessageAnnotation: serializeAnnotation, annotations.push
WriteMessageAnnotationPushes ==
    /\ wpc = "idle"
    /\ Returned < Len(WriteCalls)
    /\ annotations' = push(annotations, serializeAnnotation(WriteCalls[Returned + 1]))
    /\ wpc' = "pushed"
    /\ UNCHANGED <<outsidePersist, loopVars, dataStream, sunk, fpc, savedAnnotations>>

\* writeMessageAnnotation: dataStream.writeMessageAnnotation, return
WriteMessageAnnotationSends ==
    /\ wpc = "pushed"
    /\ dataStream' = Append(dataStream, serializeAnnotation(WriteCalls[Returned + 1]))
    /\ sunk' = [iteration |-> calls.rewriter, n |-> Returned + 1]
    /\ wpc' = "idle"
    /\ UNCHANGED <<outsidePersist, loopVars, annotations, fpc, savedAnnotations>>

\* runAgentLoop goes on behind its writeMessageAnnotation calls
LoopGoesOn ==
    /\ AllReturned
    /\ LoopNext

\* the answer's stream finishes: onFinish builds assistantMessage, whose
\* annotations property is the in-memory list itself, and waits for the title
OnFinish ==
    /\ pc = "done"
    /\ AllReturned
    /\ fpc = "running"
    /\ fpc' = "title"
    /\ UNCHANGED <<outsidePersist, loopVars, annotations, dataStream, sunk, wpc, savedAnnotations>>

\* titlePromise settles: its then callback, or its catch callback, calls
\* upsertChat with updatedMessages
TitleSettles ==
    /\ fpc = "title"
    /\ fpc' = "upsert"
    /\ UNCHANGED <<outsidePersist, loopVars, annotations, dataStream, sunk, wpc, savedAnnotations>>

\* upsertChat inserts the rows: annotations: message.annotations ?? null
UpsertChatInserts ==
    /\ fpc = "upsert"
    /\ savedAnnotations' = annotations
    /\ fpc' = "saved"
    /\ UNCHANGED <<outsidePersist, loopVars, annotations, dataStream, sunk, wpc>>

\* upsertChat rejects: the error is logged, nothing is stored
UpsertChatRejects ==
    /\ fpc = "upsert"
    /\ fpc' = "failed"
    /\ UNCHANGED <<outsidePersist, loopVars, annotations, dataStream, sunk, wpc, savedAnnotations>>

PersistNext ==
    \/ WriteMessageAnnotationPushes
    \/ WriteMessageAnnotationSends
    \/ LoopGoesOn
    \/ OnFinish
    \/ TitleSettles
    \/ UpsertChatInserts
    \/ UpsertChatRejects

\* ----------------------------------------------------------- specifications
\* one run of runAgentLoop
LoopSpec == LoopInit /\ [][LoopNext]_vars
\* concurrent POST /api/chat requests of one user on one day
AdmitSpec == AdmitInit /\ [][AdmitNext]_vars
\* one POST /api/chat request waiting in retry() while other users keep the
\* global window full
RetrySpec == RetryInit /\ [][RetryNext]_vars
\* calls of one function wrapped by cacheWithRedis
CacheSpec == CacheInit /\ [][CacheNext]_vars
\* the keys cacheWithRedis builds for two calls
KeySpec == KeyInit /\ [][KeyNext]_vars
\* the retry loops of jinaCrawlWebsite for the URLs of one bulk crawl
ScrapeSpec == ScrapeInit /\ [][ScrapeNext]_vars
\* one searchAndScrape call, from the search to the entry it returns
SearchSpec == SearchInit /\ [][SearchNext]_vars
\* POST and GET of the chat route, the runs they start and resume
StreamSpec == StreamInit /\ [][StreamNext]_vars
\* deleteChat calls of several users on one chat
ChatSpec == ChatInit /\ [][ChatNext]_vars
\* the guardrail in front of runAgentLoop, and the loop behind it
GuardSpec == GuardInit /\ [][GuardNext]_vars
\* runAgentLoop with a client that may disconnect, and onFinish behind it
CancelSpec == CancelInit /\ [][CancelNext]_vars
\* one POST /api/chat request: runAgentLoop, its annotations, onFinish
PersistSpec == PersistInit /\ [][PersistNext]_vars

\* ================================================================= claims
InBody == pc \in {"rewriter", "fanout", "evaluator"}
Terminated == pc \in {"done", "thrown"}
InStepSegment == events # <<>> /\ events[1].type = "PLANNING"
Count(t) == Cardinality({j \in DOMAIN events : events[j].type = t})
Last(seq) == seq[Len(seq)]

\* C1: the step counter stays within 0..maxSteps, and the body of a step
\* (plan, fan-out, evaluate) only runs while step < maxSteps.
C1_StepWithinBudget ==
    /\ step \in 0..maxSteps
    /\ InBody => step < maxSteps
    /\ calls.rewriter <= maxSteps

C1_Witness == pc = "loop" /\ maxSteps >= 2 /\ step = maxSteps /\ decided = "continue"

\* C2: a run without a rewriter/evaluator failure ends with exactly one call of
\* answerQuestion, as its last action; isFinal=false exactly when the evaluator
\* decided "answer" at a step < maxSteps, isFinal=true exactly when the counter
\* reached maxSteps without such a decision; with maxSteps = 0 the final answer
\* comes at once, with no planning event and no rewriter or evaluator call.
C2_EndsWithOneAnswer ==
    /\ calls.answer <= 1
    /\ (calls.answer = 1) <=> (pc = "done")
    /\ answer.called <=> (pc = "done")
    /\ Terminated \/ ENABLED LoopNext
    /\ (Terminated /\ thrown = "none") => pc = "done"
    /\ pc = "done" =>
          /\ thrown = "none"
          /\ ~ENABLED LoopNext
          /\ Last(events) = AnswerStream(answer.isFinal)
          /\ (~answer.isFinal) <=> (decided = "answer" /\ step < maxSteps)
          /\ answer.isFinal <=> (step = maxSteps /\ decided # "answer")
          /\ maxSteps = 0 =>
                /\ answer.isFinal
                /\ calls.rewriter = 0 /\ calls.evaluator = 0 /\ calls.search = 0
                /\ events = <<AnswerStream(TRUE)>>

C2_Witness == pc = "done" /\ answer.isFinal /\ maxSteps >= 1 /\ calls.evaluator = maxSteps

\* C3: within a step nothing is written before an event that precedes it in
\* the list Planning, QueriesGenerated, SearchUpdate*, SourcesFound, NewAction,
\* EvaluatorFeedback, ActionUpdate (or the answer's text when the step answers).
Rank(e) ==
    CASE e.type = "PLANNING" -> 1
      [] e.type = "QUERIES_GENERATED" -> 2
      [] e.type = "SEARCH_UPDATE" -> 3
      [] e.type = "SOURCES_FOUND" -> 4
      [] e.type = "NEW_ACTION" -> 5
      [] e.type = "EVALUATOR_FEEDBACK" -> 6
      [] e.type = "ACTION_UPDATE" -> 7
      [] e.type = "ANSWER" -> 7
C3_StepEventOrder ==
    \A a \in 1..(Len(events) - 1) : Rank(events[a]) <= Rank(events[a + 1])

C3_Witness ==
    /\ pc = "loop" /\ decided = "continue" /\ step = 2
    /\ \E j \in DOMAIN events : events[j] = SearchUpdate(1, "error")
    /\ Last(events) = ActionUpdate(1, "completed")

\* C4 (as amended): every started step writes exactly one planning event; it
\* writes exactly one queries-generated event when the rewriter returned a valid
\* plan and none when the rewriter failed or its response was rejected.
C4_OnePlanningOneQueriesIfPlanned ==
    (InBody \/ InStepSegment) =>
        /\ Count("PLANNING") = 1
        /\ Count("QUERIES_GENERATED") = (IF pc = "rewriter" \/ thrown = "rewriter" THEN 0 ELSE 1)

C4_Witness ==
    /\ thrown = "evaluator"
    /\ \E i \in DOMAIN searchResults : searchResults[i].state = "failed"
    /\ Count("PLANNING") = 1 /\ Count("QUERIES_GENERATED") = 1

\* C4 (as claimed): one planning and one queries-generated event for every
\* started step, whatever the outcome of the rewriter.
C4_Original ==
    (InStepSegment /\ ~InBody) => (Count("PLANNING") = 1 /\ Count("QUERIES_GENERATED") = 1)

\* C5: the search-update events of query i are "loading" followed by exactly one
\* terminal event, "completed" on success and "error" on failure, and every
\* query has its terminal event before the evaluator is called.
UpdatesOf(i) ==
    SelectSeq(events, LAMBDA e : e.type = "SEARCH_UPDATE" /\ e.idx = i - 1)
StatusesFor(r) ==
    CASE r.state = "pending" -> <<"loading">>
      [] r.state = "ok" -> <<"loading", "completed">>
      [] r.state = "failed" -> <<"loading", "error">>
C5_LoadingThenOneTerminal ==
    /\ \A i \in DOMAIN searchResults :
          LET u == UpdatesOf(i) IN
          /\ [j \in DOMAIN u |-> u[j].status] = StatusesFor(searchResults[i])
          /\ (pc = "evaluator" \/ decided # "none") => Len(u) = 2
    /\ Count("SEARCH_UPDATE") <= 2 * queries

PositionOf(e) == CHOOSE j \in DOMAIN events : events[j] = e
C5_Witness ==
    /\ pc = "evaluator"
    /\ searchResults[1].state = "ok" /\ searchResults[2].state = "failed"
    /\ searchResults[3].state = "ok"
    /\ PositionOf(SearchUpdate(2, "completed")) < PositionOf(SearchUpdate(1, "error"))
    /\ PositionOf(SearchUpdate(1, "error")) < PositionOf(SearchUpdate(0, "completed"))

\* C6: failed queries do not abort the fan-out: all queries settle, each
\* successful query adds exactly one entry to searchHistory, each failed query
\* adds none, and the evaluator is called without an error being raised.
EntriesOf(k, i) == {j \in DOMAIN searchHistory : searchHistory[j].query = <<k, i - 1>>}
C6_FailuresContained ==
    /\ (pc = "fanout" /\ \E i \in DOMAIN searchResults : searchResults[i].state = "failed")
          => (thrown = "none" /\ (AllSettled(searchResults) \/ ENABLED (\E i \in 1..MaxQueries : SearchCompletes(i))))
    /\ pc = "evaluator" =>
          /\ thrown = "none"
          /\ AllSettled(searchResults)
          /\ \A i \in DOMAIN searchResults :
                Cardinality(EntriesOf(step, i)) = (IF searchResults[i].state = "ok" THEN 1 ELSE 0)
          /\ \A j \in DOMAIN searchHistory : searchHistory[j] # NoEntry

C6_Witness ==
    /\ pc = "evaluator"
    /\ searchResults[1].state = "failed" /\ searchResults[3].state = "failed"
    /\ searchResults[2].state = "ok"
    /\ Cardinality(EntriesOf(step, 2)) = 1

\* C7: no URL occurs in more than one result across all entries of
\* searchHistory (neither in two entries nor twice within one entry).
Places(h) == {<<j, k>> : j \in DOMAIN h, k \in 1..2} \cap
             {p \in (DOMAIN h) \X (1..2) : p[2] \in DOMAIN h[p[1]].results}
C7_UrlsUnique ==
    \A p, q \in Places(searchHistory) :
        p # q => searchHistory[p[1]].results[p[2]].url # searchHistory[q[1]].results[q[2]].url

\* C8: a failure of the rewriter or of the evaluator at step k ends the loop: an
\* error event for step k is the last thing written, no planning, search or
\* evaluation call follows, the counter stays at k, and no answer was started.
ErrorUpdates == {j \in DOMAIN events : events[j].type = "ACTION_UPDATE" /\ events[j].status = "error"}
C8_PlannerFailureEndsLoop ==
    (thrown # "none" \/ ErrorUpdates # {}) =>
        /\ pc = "thrown"
        /\ thrown \in {"rewriter", "evaluator"}
        /\ ErrorUpdates = {Len(events)}
        /\ Last(events) = ActionUpdate(step, "error")
        /\ step < maxSteps
        /\ calls.rewriter = step + 1
        /\ calls.evaluator = (IF thrown = "rewriter" THEN step ELSE step + 1)
        /\ AllSettled(searchResults)
        /\ ~answer.called /\ calls.answer = 0
        /\ ~ENABLED LoopNext

C8_Witness == thrown = "evaluator" /\ step = 1 /\ Len(searchHistory) > 0

AllAnswered == \A r \in Requests : rpc[r] \in {"streaming", "denied_user", "denied_global", "error"}

\* C9: for one non-admin user on one day, under any interleaving of requests,
\* no more than DAILY_REQUEST_LIMIT requests are admitted past the per-user
\* quota, and the stored daily count equals the number of admitted requests.
C9_QuotaNeverExceeded ==
    (~isAdmin /\ storeUp) =>
        /\ admitted <= DAILY_REQUEST_LIMIT
        /\ AllAnswered => dailyCount = admitted

\* C10: a request answered with 429, by the global limiter or by the daily
\* quota, has changed no rate-limit counter.
C10_DeniedChangesNoCounter ==
    \A r \in Requests :
        rpc[r] \in {"denied_global", "denied_user"} =>
            (writes[r].global = 0 /\ writes[r].daily = 0)

\* C11: while the global limit stays exceeded, retry() re-checks at most
\* maxRetries + 1 times (the first re-check and maxRetries further ones) and
\* then returns false, so that POST answers 429.
C11_RetryBounded ==
    \A r \in Requests : rounds[r] <= maxRetries + 1

\* C12: a request whose global check was answered by the fail-open catch, the
\* store staying unreachable, is not failed by the store's errors and has
\* incremented no counter.
C12_FailOpenAdmits ==
    \A r \in Requests :
        failOpen[r] => (rpc[r] # "error" /\ writes[r].global = 0 /\ writes[r].daily = 0)

\* C13: whatever the stored daily count is, a request of an admin that reaches
\* checkRateLimit is allowed by it, is never answered 429 by the daily quota,
\* and never increments the daily counter.
Streaming == {r \in Requests : rpc[r] = "streaming"}
C13_AdminBypasses ==
    isAdmin =>
        /\ \A r \in Requests :
              /\ rpc[r] \notin {"denied_user", "increment"}
              /\ writes[r].daily = 0
              /\ (rpc[r] = "checkUser" /\ storeUp) => ENABLED UserCheckAllows(r)
        /\ dailyCount + Cardinality(Streaming) = admitted

C13_Witness ==
    /\ isAdmin
    /\ dailyCount = DAILY_REQUEST_LIMIT
    /\ \A r \in Requests : rpc[r] = "streaming"

\* C14 (as amended): a call that reads the cache after a first call with the
\* same arguments has completed, within the TTL, does not invoke the wrapped
\* function, and what it returns is the value last written under the key.
Later(c) == cfirst[c] # NoValue
C15_StoreErrorsContained ==
    \A c \in Callers : cpc[c] # "rejected"

\* C16: the key is '<prefix>:<12 lowercase hex characters>', the same for the
\* same (prefix, args), and different for inputs that differ in the prefix, in
\* an element, in the order of elements or of an object's properties, or in an
\* element's type.
HexChars == {"0", "1", "2", "3", "4", "5", "6", "7", "8", "9", "a", "b", "c", "d", "e", "f"}
KeyFormOk(key, keyPrefix) ==
    /\ Len(key) = Len(keyPrefix) + 1 + KeyHashLength
    /\ SubSeq(key, 1, Len(keyPrefix) + 1) = keyPrefix \o <<":">>
    /\ \A j \in (Len(keyPrefix) + 2)..Len(key) : key[j] \in HexChars
KeysDistinguish ==
    (keyLeft = keyRight) <=> (keyOut[1] = keyOut[2])
C16_KeyFormAndDistinct ==
    keyOut # <<NoKey, NoKey>> =>
        /\ KeysDistinguish
        /\ KeyFormOk(keyOut[1], keyLeft.keyPrefix)
        /\ KeyFormOk(keyOut[2], keyRight.keyPrefix)

\* C17: for every maxRetries >= 0 the reader API is called at most
\* maxRetries + 1 times for a URL, no call follows a successful one, and the
\* crawl of the URL always goes on until it returns success or failure.
C17_BoundedScrape ==
    \A u \in CrawledUrls :
        /\ apiCalls[u] <= scrMaxRetries + 1
        /\ attempts[u] <= scrMaxRetries
        /\ apiCalls[u] = attempts[u] + (IF spc[u] = "api" \/ scrResult[u] = "success" THEN 1 ELSE 0)
        /\ scrResult[u] # "none" <=> spc[u] = "returned"
        /\ spc[u] = "returned" => (scrResult[u] \in {"success", "failure"} /\ ~ENABLED ScrapeStep(u))
        /\ spc[u] # "returned" => ENABLED ScrapeStep(u)

C17_Witness ==
    /\ scrMaxRetries = MaxScrapeRetries
    /\ scrResult[1] = "failure" /\ apiCalls[1] = scrMaxRetries
    /\ scrResult[2] = "success" /\ apiCalls[2] = 2

\* C18: every result of the entry searchAndScrape returns for searchHistory
\* whose URL failed to scrape, or scraped to empty or whitespace-only text,
\* has summary equal to its snippet, and scrapedContent "" when the scrape
\* failed
C18_FallbackSummary ==
    \A e \in DOMAIN sasEntry : \A i \in DOMAIN sasEntry[e].results :
        LET result == sasEntry[e].results[i] IN
        (~crawl[i].success \/ Trim(crawl[i].data) = EmptyText) =>
            /\ result.summary = Present(result.snippet)
            /\ ~crawl[i].success => result.scrapedContent = EmptyText

\* C19: a GET for chat c is answered 404 whenever c has no run in flight,
\* before any POST for c as well as after c's run has finished, and with a
\* stream only while a run of c is in flight
C19_GetNotFoundUnlessInFlight ==
    \A c \in DOMAIN lastGet :
        lastGet[c] # NoGet => (lastGet[c].status = 404 <=> ~lastGet[c].inFlight)

\* C20: deleteChat called by a user on a chat that does not exist or is
\* owned by another user deletes nothing, neither the chat row nor any of
\* its messages, and returns CHAT_NOT_FOUND unless a statement failed; only
\* a call by the owner removes the chat and its messages
C20_OnlyOwnerDeletes ==
    \A d \in DOMAIN dcall :
        (dcall[d] # NoCall /\ ~dcall[d].owned) =>
            /\ removed[d] = NothingRemoved
            /\ dpc[d] = "returned" =>
                  dret[d] \in {"CHAT_NOT_FOUND", "INTERNAL_ERROR", "rejected"}

\* C21: when the guardrail classifies the message history as "refuse", the
\* loop is never entered: no planning event is written, the rewriter, the
\* search and the evaluator are never called, and the response is a single
\* short refusal answer, after which nothing more happens
C21_RefusalBypassesLoop ==
    classification = "refuse" =>
        /\ pc = "done"
        /\ step = 0 /\ searchHistory = <<>>
        /\ calls.rewriter = 0 /\ calls.search = 0 /\ calls.evaluator = 0
        /\ calls.answer = 1
        /\ events = <<Refusal>>
        /\ thrown = "none"
        /\ ~ENABLED GuardNext

C21_Witness == classification = "refuse" /\ pc = "done" /\ maxSteps >= 1

\* C22: when a request is cancelled while the loop is running, the calls in
\* flight are notified, the run ends with a final Error event of reason
\* "cancelled", and onFinish persists no chat or message after the
\* cancellation
C22_CancellationEndsRun ==
    cancelledIn # "none" =>
        /\ SignalPassed
        /\ persisted # "after"
        /\ (~ENABLED CancelNext) => (events # <<>> /\ events[Len(events)] = CancelledError)

\* (k, i) before (k2, i2): an earlier step, or the same step and an earlier
\* place in its plan
QueryBefore(a, b) == a[1] < b[1] \/ (a[1] = b[1] /\ a[2] < b[2])

\* C23: within a step nothing is appended to searchHistory until every query
\* task of the step has settled, and the successful entries are then
\* appended in the order of the queries in the plan, whatever the order in
\* which the tasks completed
C23_ReportedAfterJoinInPlanOrder ==
    /\ pc \in {"rewriter", "fanout"} =>
          \A j \in DOMAIN searchHistory : searchHistory[j].query[1] < step
    /\ \A j \in 1..(Len(searchHistory) - 1) :
          QueryBefore(searchHistory[j].query, searchHistory[j + 1].query)

C23_Witness ==
    /\ pc = "evaluator"
    /\ searchResults[1].state = "ok" /\ searchResults[3].state = "ok"
    /\ PositionOf(SearchUpdate(2, "completed")) < PositionOf(SearchUpdate(0, "completed"))
    /\ \E j \in 1..(Len(searchHistory) - 1) :
          /\ searchHistory[j].query = <<step, 0>>
          /\ searchHistory[j + 1].query[2] > 0

\* every query task of the step's fan-out has failed
AllFailed ==
    /\ searchResults # <<>>
    /\ \A i \in DOMAIN searchResults : searchResults[i].state = "failed"
NoEntryOfStep(k) == \A j \in DOMAIN searchHistory : searchHistory[j].query[1] # k

\* C24: if every query of a step fails, searchHistory is left unchanged by
\* that step and the evaluator is still called for it; on "continue" the
\* step counter advances by exactly one and the loop goes on, on "answer" the
\* answer is streamed
C24_AllQueriesFail ==
    AllFailed =>
        /\ thrown \in {"none", "evaluator"}
        /\ pc = "fanout" => ENABLED FanoutJoined
        /\ pc = "evaluator" =>
              /\ NoEntryOfStep(step)
              /\ calls.evaluator = step + 1
              /\ ENABLED EvaluatorContinues /\ ENABLED EvaluatorAnswers
        /\ (pc = "loop" /\ decided = "continue") =>
              /\ NoEntryOfStep(step - 1)
              /\ step = calls.evaluator
              /\ step = calls.rewriter
              /\ ENABLED (StartStep \/ MaxStepsReached)
        /\ (pc = "done" /\ decided = "answer") =>
              /\ NoEntryOfStep(step)
              /\ calls.evaluator = step + 1
              /\ answer.called /\ calls.answer = 1
              /\ Last(events) = AnswerStream(answer.isFinal)

C24_Witness ==
    /\ AllFailed /\ Len(searchResults) = 3
    /\ pc = "loop" /\ decided = "continue" /\ step = 1
    /\ maxSteps = 2

\* C25: when the query rewriter's response has fewer than 3 queries, the
\* driver rejects it and calls the rewriter once more instead of ending the
\* loop (and after a second failure runs the step with the user's last
\* message as its single query)
C25_ShortPlanRetried ==
    [][\A n \in 0..(MinQueries - 1) :
          RewriterRejects(n) =>
              /\ pc' = "rewriter"
              /\ thrown' = "none"
              /\ calls'.rewriter = calls.rewriter + 1]_vars

ValidSizes == MinQueries..MaxQueries
PendingTasks == {i \in DOMAIN searchResults : searchResults[i].state = "pending"}

\* C26: queryRewriter only ever returns a plan whose query list has between
\* 3 and 5 entries; a response with fewer than 3 or more than 5 queries, or
\* with none, is rejected with an error, so that a step never fans out into
\* more than 5 concurrent query tasks
C26_PlanSizeValidated ==
    /\ [](pc \in {"fanout", "evaluator"} =>
            /\ queries \in ValidSizes
            /\ Len(searchResults) = queries
            /\ Cardinality(PendingTasks) <= MaxQueries)
    /\ [][pc = "rewriter" =>
            \/ pc' = "fanout" /\ queries' \in ValidSizes
            \/ pc' = "thrown" /\ thrown' = "rewriter"]_vars

C26_Witness ==
    /\ pc = "fanout" /\ queries = MinQueries /\ step = 1
    /\ Cardinality(PendingTasks) = MinQueries

\* C27: under any interleaving of concurrent POST requests, the number of
\* requests recorded by recordRateLimit under one global window key never
\* exceeds maxRequests
C27_WindowNeverOverfilled == globalCount <= GlobalMaxRequests

\* C28: the delay the scraper waits before its n-th retry of a URL
\* (n = 1, 2, ...) is min(500 * 2^(n-1), 8000) milliseconds: the sequence
\* starts at the 500 ms base, doubles each time and is capped at 8 s
C28_BackoffFromBase ==
    \A u \in DOMAIN delays : \A n \in DOMAIN delays[u] :
        delays[u][n] = Min(MIN_DELAY_MS * Pow2(n - 1), MAX_DELAY_MS)

\* C29 (as amended): a failed outcome is cached like a success: a call that
\* starts while a failure written under its key has not expired makes no new
\* fetch attempt; it returns the value stored under the key (that failure,
\* unless a concurrent miss overwrote it) or rejects when the store read fails.
FailureCached(c) == cfirst[c] = CrawlFailure \/ clast[c] = CrawlFailure
C29_FailureServedFromCache ==
    \A c \in Callers :
        FailureCached(c) =>
            /\ ~spy[c]
            /\ cpc[c] \in {"returned", "rejected"}
            /\ cpc[c] = "returned" => cret[c] = clast[c]
            /\ (cfirst[c] = CrawlFailure /\ clast[c] = CrawlFailure /\ cpc[c] = "returned")
                   => cret[c] = CrawlFailure

C29_Witness ==
    \E c \in Callers :
        /\ cfirst[c] = CrawlFailure /\ clast[c] = CrawlFailure
        /\ cpc[c] = "returned" /\ ~spy[c]
        /\ cret[c] = CrawlFailure

\* C29 (as claimed): every such call returns the cached failure.
C29_Original ==
    \A c \in Callers :
        FailureCached(c) =>
            /\ ~spy[c]
            /\ cpc[c] = "returned"
            /\ cret[c] = CrawlFailure

\* C30: the annotations stored on the assistant message that onFinish persists
\* are exactly those written to the client stream during the request, in the
\* same order: each one is appended to the in-memory list before it is sent,
\* and all of them precede the call of onFinish.
C30_StoredAnnotationsAreSent ==
    /\ wpc = "idle" => annotations = dataStream
    /\ wpc = "pushed" =>
           annotations = Append(dataStream, serializeAnnotation(WriteCalls[Returned + 1]))
    /\ fpc # "running" => (pc = "done" /\ AllReturned /\ ~ENABLED LoopNext)
    /\ savedAnnotations # NoRow => savedAnnotations = dataStream

C30_Witness ==
    /\ fpc = "saved"
    /\ savedAnnotations = dataStream
    /\ Len(savedAnnotations) >= 4
    /\ \E i \in 1..Len(savedAnnotations) : savedAnnotations[i].type = "SEARCH_UPDATE" /\ savedAnnotations[i].status = "error"

====
